---- MODULE Spec2Model ----
(***************************************************************************)
(* ARPP: an automated market maker whose quote is                          *)
(*     p_ref * (1 + alpha * atan(beta * (r - 1)))                          *)
(* A LiquidityPool (src/src/arpp/liquidity_pool.rs), the pricing formula   *)
(* (src/src/arpp/formula.rs), the reference-price random walk              *)
(* (src/src/simulation/random_walk.rs), the trading strategies             *)
(* (src/src/simulation/strategies.rs) and the Monte Carlo driver           *)
(* (src/src/simulation/monte_carlo.rs).                                    *)
(*                                                                         *)
(* rust_decimal::Decimal values are fixed-point integers: the Decimal d is *)
(* the integer d * SCALE.  Sums and differences are exact; products and    *)
(* quotients are rounded to the nearest unit, as Decimal rounds to its     *)
(* last digit.                                                             *)
(***************************************************************************)
EXTENDS Integers, Sequences, FiniteSets, TLC

VARIABLES
    pool,        \* the LiquidityPool: token_a, token_b, p_ref, alpha, beta
    last,        \* the last call on the pool: op, arguments, outcome, value, pool before
    nops,        \* number of calls made on the pool so far
    updated,     \* TRUE once set_p_ref has replaced p_ref
    sim          \* the MonteCarloSimulation and the position of run() in its body

vars == <<pool, last, nops, updated, sim>>

----------------------------------------------------------------------------
(* Decimal arithmetic *)

\* One unit of the last kept digit: Decimal 1 is the integer SCALE.
SCALE == 100

Abs(x) == IF x < 0 THEN -x ELSE x

Max(x, y) == IF x >= y THEN x ELSE y

Min(x, y) == IF x <= y THEN x ELSE y

\* n / d rounded to the nearest integer, halves away from zero (d # 0).
RoundDiv(n, d) ==
    LET s == IF (n < 0) = (d < 0) THEN 1 ELSE -1
        an == Abs(n)
        ad == Abs(d)
    IN  s * ((an + (ad \div 2)) \div ad)

\* Decimal * Decimal
Mul(x, y) == RoundDiv(x * y, SCALE)

\* Decimal / Decimal, y # 0 (rust_decimal panics on a zero divisor)
Div(x, y) == RoundDiv(x * SCALE, y)

\* dec!(2)
TWO == 2 * SCALE

----------------------------------------------------------------------------
(* formula.rs *)

\* pi/2 to the kept digits: the value libm::atan saturates to.
HALF_PI == 157

\* libm::atan on an angle in [0, 1], converted back with Decimal::from_f64:
\* x / (1 + 0.28 x^2), zero at zero, increasing, pi/4 at 1.
atan_unit(x) == Div(x, SCALE + RoundDiv(28 * Mul(x, x), 100))

\* libm::atan on a non-negative angle: atan(x) = pi/2 - atan(1/x) above 1.
atan_nonneg(x) ==
    IF x <= SCALE THEN atan_unit(x) ELSE HALF_PI - atan_unit(Div(SCALE, x))

\* atan taking the size of the angle and dropping its sign.
atan_even(x) == atan_nonneg(Abs(x))

\* libm::atan is odd.
atan(x) == IF x >= 0 THEN atan_nonneg(x) ELSE -atan_nonneg(-x)

\* arpp with the angle taken from r instead of r - 1.
arpp_uncentred(p_ref, alpha, beta, r) ==
    LET one == SCALE
        angle == Mul(beta, r)
        atan_value == atan(angle)
    IN  Mul(p_ref, one + Mul(alpha, atan_value))

\* arpp with the atan term not weighted by alpha.
arpp_unweighted(p_ref, alpha, beta, r) ==
    LET one == SCALE
        angle == Mul(beta, r - one)
        atan_value == atan(angle)
    IN  Mul(p_ref, one + atan_value)

\* arpp with the angle itself in place of its atan.
arpp_linear(p_ref, alpha, beta, r) ==
    LET one == SCALE
        angle == Mul(beta, r - one)
    IN  Mul(p_ref, one + Mul(alpha, angle))

\* arpp(p_ref, alpha, beta, r) = p_ref * (1 + alpha * atan(beta * (r - 1)))
arpp(p_ref, alpha, beta, r) ==
    LET one == SCALE
        angle == Mul(beta, r - one)
        atan_value == atan(angle)
    IN  Mul(p_ref, one + Mul(alpha, atan_value))

\* token_ratio(token_a, token_b): the imbalance ratio token_a / token_b fed to
\* arpp by get_price and by both swaps.  A zero token_b has no ratio.
token_ratio_defined(token_a, token_b) == token_b # 0

token_ratio(token_a, token_b) == Div(token_a, token_b)

----------------------------------------------------------------------------
(* random_walk.rs *)

\* const MIN_PRICE: f64 = 0.1
MIN_PRICE == SCALE \div 10

\* Normal::new(mean, std_dev).sample(rng) = mean + std_dev * z, z a standard
\* normal draw.
normal_sample(mean, std_dev, z) == mean + Mul(std_dev, z)

\* random_walk_price without the MIN_PRICE floor.
random_walk_price_no_floor(last_price, std_dev, std_dev_of_std_dev, z1, z2) ==
    LET new_std_dev == Abs(normal_sample(std_dev, std_dev_of_std_dev, z1))
        price_change == normal_sample(0, new_std_dev, z2)
    IN  last_price + price_change

\* random_walk_price with a price change of unit spread whatever new_std_dev is.
random_walk_price_unit_spread(last_price, std_dev, std_dev_of_std_dev, z1, z2) ==
    LET price_change == normal_sample(0, SCALE, z2)
        new_price == last_price + price_change
    IN  Max(new_price, MIN_PRICE)

\* random_walk_price with a negative first draw cut to zero.
random_walk_price_clamped(last_price, std_dev, std_dev_of_std_dev, z1, z2) ==
    LET new_std_dev == Max(normal_sample(std_dev, std_dev_of_std_dev, z1), 0)
        price_change == normal_sample(0, new_std_dev, z2)
        new_price == last_price + price_change
    IN  Max(new_price, MIN_PRICE)

\* random_walk_price(last_price, std_dev, std_dev_of_std_dev) with its two
\* standard normal draws z1, z2.
random_walk_price(last_price, std_dev, std_dev_of_std_dev, z1, z2) ==
    LET new_std_dev == Abs(normal_sample(std_dev, std_dev_of_std_dev, z1))
        price_change == normal_sample(0, new_std_dev, z2)
        new_price == last_price + price_change
    IN  Max(new_price, MIN_PRICE)

----------------------------------------------------------------------------
(* liquidity_pool.rs *)

\* LiquidityPool::new
LiquidityPool(token_a, token_b, p_ref, alpha, beta) ==
    [token_a |-> token_a, token_b |-> token_b, p_ref |-> p_ref,
     alpha |-> alpha, beta |-> beta]

\* What a call returns: the pool after it, how it ended and the value of an Ok.
\* "InvalidAmount" is the error "Amount(s) must be positive",
\* "InsufficientLiquidity" the errors "Insufficient liquidity ...",
\* "Panic" an unwinding panic (no value is returned).
Result(p, outcome, ret) == [pool |-> p, outcome |-> outcome, ret |-> ret]

\* add_liquidity also moving p_ref by the amount of token A added.
add_liquidity_repriced(p, amount_a, amount_b) ==
    IF amount_a <= 0 \/ amount_b <= 0
    THEN Result(p, "InvalidAmount", 0)
    ELSE Result([p EXCEPT !.token_a = @ + amount_a, !.token_b = @ + amount_b,
                          !.p_ref = @ + amount_a],
                "Ok", 0)

add_liquidity(p, amount_a, amount_b) ==
    IF amount_a <= 0 \/ amount_b <= 0
    THEN Result(p, "InvalidAmount", 0)
    ELSE Result([p EXCEPT !.token_a = @ + amount_a, !.token_b = @ + amount_b],
                "Ok", 0)

\* remove_liquidity without the balance test.
remove_liquidity_unchecked(p, amount_a, amount_b) ==
    IF amount_a <= 0 \/ amount_b <= 0
    THEN Result(p, "InvalidAmount", 0)
    ELSE Result([p EXCEPT !.token_a = @ - amount_a, !.token_b = @ - amount_b],
                "Ok", 0)

\* remove_liquidity with the balance test before the sign test.
remove_liquidity_balance_first(p, amount_a, amount_b) ==
    IF amount_a > p.token_a \/ amount_b > p.token_b
    THEN Result(p, "InsufficientLiquidity", 0)
    ELSE IF amount_a <= 0 \/ amount_b <= 0
    THEN Result(p, "InvalidAmount", 0)
    ELSE Result([p EXCEPT !.token_a = @ - amount_a, !.token_b = @ - amount_b],
                "Ok", 0)

remove_liquidity(p, amount_a, amount_b) ==
    IF amount_a <= 0 \/ amount_b <= 0
    THEN Result(p, "InvalidAmount", 0)
    ELSE IF amount_a > p.token_a \/ amount_b > p.token_b
    THEN Result(p, "InsufficientLiquidity", 0)
    ELSE Result([p EXCEPT !.token_a = @ - amount_a, !.token_b = @ - amount_b],
                "Ok", 0)

\* The quote of swap_a_to_b (lines 147-152, before "* amount_a").
quote_a_to_b(p) ==
    arpp(p.p_ref, p.alpha, p.beta, token_ratio(p.token_a, p.token_b))

\* The quote of swap_b_to_a taken from the reciprocal ratio token_b / token_a.
quote_b_to_a_reciprocal(p) ==
    IF p.token_a = 0
    THEN arpp(p.p_ref, p.alpha, p.beta, token_ratio(p.token_a, p.token_b))
    ELSE arpp(p.p_ref, p.alpha, p.beta, token_ratio(p.token_b, p.token_a))

\* The quote of swap_b_to_a (lines 186-191, before "* amount_b").
quote_b_to_a(p) ==
    arpp(p.p_ref, p.alpha, p.beta, token_ratio(p.token_a, p.token_b))

\* swap_a_to_b refusing an output equal to the whole of token_b.
swap_a_to_b_strict(p, amount_a) ==
    IF amount_a <= 0
    THEN Result(p, "InvalidAmount", 0)
    ELSE IF amount_a > p.token_a
    THEN Result(p, "InsufficientLiquidity", 0)
    ELSE IF ~token_ratio_defined(p.token_a, p.token_b)
    THEN Result(p, "Panic", 0)
    ELSE LET amount_b == Mul(quote_a_to_b(p), amount_a)
         IN  IF amount_b <= 0 \/ amount_b >= p.token_b
             THEN Result(p, "InsufficientLiquidity", 0)
             ELSE Result([p EXCEPT !.token_a = @ + amount_a,
                                   !.token_b = @ - amount_b],
                         "Ok", amount_b)

swap_a_to_b(p, amount_a) ==
    IF amount_a <= 0
    THEN Result(p, "InvalidAmount", 0)
    ELSE IF amount_a > p.token_a
    THEN Result(p, "InsufficientLiquidity", 0)
    ELSE IF ~token_ratio_defined(p.token_a, p.token_b)
    THEN Result(p, "Panic", 0)
    ELSE LET amount_b == Mul(quote_a_to_b(p), amount_a)
         IN  IF amount_b <= 0 \/ amount_b > p.token_b
             THEN Result(p, "InsufficientLiquidity", 0)
             ELSE Result([p EXCEPT !.token_a = @ + amount_a,
                                   !.token_b = @ - amount_b],
                         "Ok", amount_b)

\* swap_b_to_a taking amount_b, not amount_a, out of token_a.
swap_b_to_a_same_amount(p, amount_b) ==
    IF amount_b <= 0
    THEN Result(p, "InvalidAmount", 0)
    ELSE IF amount_b > p.token_b
    THEN Result(p, "InsufficientLiquidity", 0)
    ELSE IF ~token_ratio_defined(p.token_a, p.token_b)
    THEN Result(p, "Panic", 0)
    ELSE LET amount_a == Mul(quote_b_to_a(p), amount_b)
         IN  IF amount_a <= 0 \/ amount_a > p.token_a
             THEN Result(p, "InsufficientLiquidity", 0)
             ELSE Result([p EXCEPT !.token_a = @ - amount_b,
                                   !.token_b = @ + amount_b],
                         "Ok", amount_a)

\* swap_b_to_a crediting amount_b before the test of the output amount.
swap_b_to_a_early_credit(p, amount_b) ==
    IF amount_b <= 0
    THEN Result(p, "InvalidAmount", 0)
    ELSE IF amount_b > p.token_b
    THEN Result(p, "InsufficientLiquidity", 0)
    ELSE IF ~token_ratio_defined(p.token_a, p.token_b)
    THEN Result(p, "Panic", 0)
    ELSE LET amount_a == Mul(quote_b_to_a(p), amount_b)
             credited == [p EXCEPT !.token_b = @ + amount_b]
         IN  IF amount_a <= 0 \/ amount_a > p.token_a
             THEN Result(credited, "InsufficientLiquidity", 0)
             ELSE Result([credited EXCEPT !.token_a = @ - amount_a],
                         "Ok", amount_a)

swap_b_to_a(p, amount_b) ==
    IF amount_b <= 0
    THEN Result(p, "InvalidAmount", 0)
    ELSE IF amount_b > p.token_b
    THEN Result(p, "InsufficientLiquidity", 0)
    ELSE IF ~token_ratio_defined(p.token_a, p.token_b)
    THEN Result(p, "Panic", 0)
    ELSE LET amount_a == Mul(quote_b_to_a(p), amount_b)
         IN  IF amount_a <= 0 \/ amount_a > p.token_a
             THEN Result(p, "InsufficientLiquidity", 0)
             ELSE Result([p EXCEPT !.token_a = @ - amount_a,
                                   !.token_b = @ + amount_b],
                         "Ok", amount_a)

\* get_price: the quote from the current balances and p_ref; nothing is stored.
get_price(p) ==
    IF ~token_ratio_defined(p.token_a, p.token_b)
    THEN Result(p, "Panic", 0)
    ELSE LET r == token_ratio(p.token_a, p.token_b)
             price == arpp(p.p_ref, p.alpha, p.beta, r)
         IN  Result(p, "Ok", price)

\* set_p_ref(alpha, beta): p_ref := random_walk_price(p_ref, alpha, beta)
set_p_ref(p, alpha, beta, z1, z2) ==
    Result([p EXCEPT !.p_ref = random_walk_price(p.p_ref, alpha, beta, z1, z2)],
           "Ok", 0)

get_p_ref(p) == Result(p, "Ok", p.p_ref)

get_balances(p) == <<p.token_a, p.token_b>>

----------------------------------------------------------------------------
(* strategies.rs *)

RandomStrategy(swap_probability, max_swap_amount) ==
    [kind |-> "random", swap_probability |-> swap_probability,
     max_swap_amount |-> max_swap_amount, swap_threshold |-> 0, swap_amount |-> 0]

MeanReversionStrategy(swap_threshold, swap_amount) ==
    [kind |-> "mean_reversion", swap_probability |-> 0, max_swap_amount |-> 0,
     swap_threshold |-> swap_threshold, swap_amount |-> swap_amount]

\* RandomStrategy::execute with its three draws: u = rng.gen::<f64>() for the
\* gate, v = rng.gen::<f64>() for the amount, dir = rng.gen::<bool>().  The
\* swaps are followed by `?`: their error is the error of execute.
random_execute_gate_inclusive(st, p, u, v, dir) ==
    IF u <= st.swap_probability
    THEN LET balance_a == get_balances(p)[1]
             balance_b == get_balances(p)[2]
             amount_a == Min(Div(balance_a, TWO), st.max_swap_amount)
             amount_b == Min(Div(balance_b, TWO), st.max_swap_amount)
             amount == Mul(v, st.max_swap_amount)
         IN  IF dir
             THEN swap_a_to_b(p, Min(amount, amount_a))
             ELSE swap_b_to_a(p, Min(amount, amount_b))
    ELSE Result(p, "Ok", 0)

random_execute(st, p, u, v, dir) ==
    IF u < st.swap_probability
    THEN LET balance_a == get_balances(p)[1]
             balance_b == get_balances(p)[2]
             amount_a == Min(Div(balance_a, TWO), st.max_swap_amount)
             amount_b == Min(Div(balance_b, TWO), st.max_swap_amount)
             amount == Mul(v, st.max_swap_amount)
         IN  IF dir
             THEN swap_a_to_b(p, Min(amount, amount_a))
             ELSE swap_b_to_a(p, Min(amount, amount_b))
    ELSE Result(p, "Ok", 0)

\* MeanReversionStrategy::execute trading at the threshold too.
mean_reversion_execute_at_threshold(st, p, current_price) ==
    IF current_price >= get_p_ref(p).ret + st.swap_threshold
    THEN swap_b_to_a(p, st.swap_amount)
    ELSE IF current_price <= get_p_ref(p).ret - st.swap_threshold
    THEN swap_a_to_b(p, st.swap_amount)
    ELSE Result(p, "Ok", 0)

\* MeanReversionStrategy::execute dropping the error of its swap.
mean_reversion_execute_tolerant(st, p, current_price) ==
    LET res == IF current_price > get_p_ref(p).ret + st.swap_threshold
               THEN swap_b_to_a(p, st.swap_amount)
               ELSE IF current_price < get_p_ref(p).ret - st.swap_threshold
               THEN swap_a_to_b(p, st.swap_amount)
               ELSE Result(p, "Ok", 0)
    IN  IF res.outcome \in {"InvalidAmount", "InsufficientLiquidity"}
        THEN Result(p, "Ok", 0)
        ELSE res

\* MeanReversionStrategy::execute: each swap is followed by `?`.
mean_reversion_execute(st, p, current_price) ==
    IF current_price > get_p_ref(p).ret + st.swap_threshold
    THEN swap_b_to_a(p, st.swap_amount)
    ELSE IF current_price < get_p_ref(p).ret - st.swap_threshold
    THEN swap_a_to_b(p, st.swap_amount)
    ELSE Result(p, "Ok", 0)

\* strategy.execute(&mut self.pool, current_price): dynamic dispatch
execute(st, p, current_price, u, v, dir) ==
    IF st.kind = "random"
    THEN random_execute(st, p, u, v, dir)
    ELSE mean_reversion_execute(st, p, current_price)

----------------------------------------------------------------------------
(* monte_carlo.rs *)

\* add_liquidity_if_needed: both balances are read once, before the two tests;
\* each add_liquidity is followed by `?`.
add_liquidity_if_needed(p) ==
    LET token_a_liquidity == get_balances(p)[1]
        token_b_liquidity == get_balances(p)[2]
        first ==
            IF token_a_liquidity < Div(token_b_liquidity, TWO)
            THEN add_liquidity(p, Div(token_b_liquidity, TWO) - token_a_liquidity, 0)
            ELSE Result(p, "Ok", 0)
    IN  IF first.outcome # "Ok"
        THEN first
        ELSE IF token_b_liquidity < Div(token_a_liquidity, TWO)
        THEN add_liquidity(first.pool, 0,
                           Div(token_a_liquidity, TWO) - token_b_liquidity)
        ELSE first

\* An iteration working on a fresh clone of the template.
iteration_pool_cloned(template, current) == template

\* The pool an iteration of run() works on: self.pool, as the iteration
\* before left it (the template is not cloned).
iteration_pool(template, current) == current

\* Decimal::MAX and Decimal::MIN, the first values of min_price and max_price.
DECIMAL_MAX == 1000000000

DECIMAL_MIN == -DECIMAL_MAX

----------------------------------------------------------------------------
(* metrics.rs *)

\* PoolMetrics::new (and PoolMetrics::default): no step, four zero sums.
PoolMetrics_new ==
    [steps |-> << >>, price_volatility |-> 0, liquidity_depth |-> 0,
     trading_volume |-> 0, impermanent_loss |-> 0]

\* Decimal::clamp(min, max)
clamp(x, lo, hi) == IF x < lo THEN lo ELSE IF x > hi THEN hi ELSE x

\* The largest r in lo .. hi with r * r <= n (lo * lo <= n).
RECURSIVE isqrt_between(_, _, _)
isqrt_between(n, lo, hi) ==
    IF lo >= hi
    THEN lo
    ELSE LET mid == (lo + hi + 1) \div 2
         IN  IF mid * mid <= n
             THEN isqrt_between(n, mid, hi)
             ELSE isqrt_between(n, lo, mid - 1)

\* Decimal::sqrt: None below zero, else the root cut at the last kept digit.
\* The result is [some |-> BOOLEAN, value |-> Decimal]; 46340 is the largest
\* root whose square is a 32-bit integer.
sqrt(x) ==
    IF x < 0
    THEN [some |-> FALSE, value |-> 0]
    ELSE [some |-> TRUE, value |-> isqrt_between(x * SCALE, 0, Min(x * SCALE, 46340))]

\* calculate_price_volatility without the final clamp.
calculate_price_volatility_unclamped(current_price, initial_price) ==
    IF current_price < 0 \/ initial_price < 0
    THEN SCALE
    ELSE IF initial_price = 0
    THEN (IF current_price = 0 THEN 0 ELSE SCALE)
    ELSE Abs(Div(current_price - initial_price, initial_price))

calculate_price_volatility(current_price, initial_price) ==
    IF current_price < 0 \/ initial_price < 0
    THEN SCALE
    ELSE IF initial_price = 0
    THEN (IF current_price = 0 THEN 0 ELSE SCALE)
    ELSE LET volatility == Abs(Div(current_price - initial_price, initial_price))
         IN  clamp(volatility, 0, SCALE)

calculate_liquidity_depth(token_a, token_b) ==
    LET results == sqrt(Mul(token_a, token_b))
    IN  IF results.some THEN results.value ELSE 0

\* The two differences added with their sign.
calculate_trading_volume_signed(token_a, token_b, initial_a, initial_b) ==
    (token_a - initial_a) + (token_b - initial_b)

calculate_trading_volume(token_a, token_b, initial_a, initial_b) ==
    Abs(token_a - initial_a) + Abs(token_b - initial_b)

calculate_impermanent_loss(token_a, token_b, initial_a, initial_b, current_price, initial_price) ==
    IF \/ token_a < 0 \/ token_b < 0 \/ initial_a < 0 \/ initial_b < 0
       \/ current_price < 0 \/ initial_price < 0
    THEN 0
    ELSE IF initial_price = 0
    THEN (IF current_price = 0 THEN 0 ELSE SCALE)
    ELSE LET value_if_held ==
                 Div(Mul(initial_a, current_price), initial_price) + initial_b
             value_in_pool == Mul(token_a, current_price) + token_b
         IN  IF value_if_held = 0
             THEN (IF value_in_pool = 0 THEN 0 ELSE SCALE)
             ELSE clamp(Div(value_in_pool - value_if_held, value_if_held),
                        -SCALE, SCALE)

\* PoolMetrics::update_metrics
update_metrics(metrics, current_step, initial_step) ==
    [metrics EXCEPT
        !.price_volatility =
            @ + calculate_price_volatility(current_step.price, initial_step.price),
        !.liquidity_depth =
            @ + calculate_liquidity_depth(current_step.balances_a,
                                          current_step.balances_b),
        !.trading_volume =
            @ + calculate_trading_volume(current_step.balances_a,
                                         current_step.balances_b,
                                         initial_step.balances_a,
                                         initial_step.balances_b),
        !.impermanent_loss =
            @ + calculate_impermanent_loss(current_step.balances_a,
                                           current_step.balances_b,
                                           initial_step.balances_a,
                                           initial_step.balances_b,
                                           current_step.price,
                                           initial_step.price)]

\* accumulate_pool_metrics adding to the sums without keeping the snapshot.
accumulate_pool_metrics_unrecorded(p, metrics, initial_step) ==
    IF get_price(p).outcome = "Panic" \/ p.token_a = 0
    THEN [outcome |-> "Panic", metrics |-> metrics]
    ELSE LET current_step ==
                 [price |-> get_price(p).ret,
                  p_ref |-> get_p_ref(p).ret,
                  balances_a |-> get_balances(p)[1],
                  balances_b |-> get_balances(p)[2],
                  ratio |-> Div(get_balances(p)[2], get_balances(p)[1])]
         IN  [outcome |-> "Ok",
              metrics |-> update_metrics(metrics, current_step, initial_step)]

\* accumulate_pool_metrics: get_price, then token_b / token_a, then the step
\* pushed on metrics.steps and added to the sums.  The result is
\* [outcome, metrics].
accumulate_pool_metrics(p, metrics, initial_step) ==
    IF get_price(p).outcome = "Panic" \/ p.token_a = 0
    THEN [outcome |-> "Panic", metrics |-> metrics]
    ELSE LET token_a == get_balances(p)[1]
             token_b == get_balances(p)[2]
             current_step ==
                 [price |-> get_price(p).ret,
                  p_ref |-> get_p_ref(p).ret,
                  balances_a |-> token_a,
                  balances_b |-> token_b,
                  ratio |-> Div(token_b, token_a)]
             pushed == [metrics EXCEPT !.steps = Append(@, current_step)]
         IN  [outcome |-> "Ok",
              metrics |-> update_metrics(pushed, current_step, initial_step)]

----------------------------------------------------------------------------
(* monte_carlo.rs: the accumulators of run() *)

\* A PoolMetrics declared inside the iteration loop.
iteration_metrics_fresh(metrics) == PoolMetrics_new

\* pool_metrics at the head of an iteration: it is declared once, before the
\* loop, and every iteration goes on with what the one before left.
iteration_metrics(metrics) == metrics

\* The price handed to the strategy read again at the call.
strategy_price_reread(current_price, p) == get_price(p).ret

\* The price handed to the strategy (line 123): current_price, read at
\* line 116, before set_p_ref.
strategy_price(current_price, p) == current_price

\* The four accumulators before the first iteration.
Accumulators ==
    [total_price_change |-> 0, total_liquidity_change |-> 0,
     max_price |-> DECIMAL_MIN, min_price |-> DECIMAL_MAX]

\* The fold keeping the last final_price as max_price.
fold_iteration_last_price(acc, initial_price, initial_liquidity, final_price, final_liquidity) ==
    [total_price_change |->
         acc.total_price_change + Abs(final_price - initial_price),
     total_liquidity_change |->
         acc.total_liquidity_change + Abs(final_liquidity - initial_liquidity),
     max_price |-> final_price,
     min_price |-> Min(acc.min_price, final_price)]

\* The fold adding the changes with their sign.
fold_iteration_signed(acc, initial_price, initial_liquidity, final_price, final_liquidity) ==
    [total_price_change |-> acc.total_price_change + (final_price - initial_price),
     total_liquidity_change |->
         acc.total_liquidity_change + (final_liquidity - initial_liquidity),
     max_price |-> Max(acc.max_price, final_price),
     min_price |-> Min(acc.min_price, final_price)]

\* Lines 131-134: one iteration folded into the accumulators.
fold_iteration(acc, initial_price, initial_liquidity, final_price, final_liquidity) ==
    [total_price_change |->
         acc.total_price_change + Abs(final_price - initial_price),
     total_liquidity_change |->
         acc.total_liquidity_change + Abs(final_liquidity - initial_liquidity),
     max_price |-> Max(acc.max_price, final_price),
     min_price |-> Min(acc.min_price, final_price)]

\* Lines 137-143: the SimulationResult of the accumulators.
simulation_result(acc, iterations, metrics) ==
    [average_price_change |->
         Div(acc.total_price_change, iterations * SCALE),
     average_liquidity_change |->
         Div(acc.total_liquidity_change, iterations * SCALE),
     max_price |-> acc.max_price,
     min_price |-> acc.min_price,
     metrics |-> metrics]

----------------------------------------------------------------------------
(* Bounds and inputs *)

\* Calls made on one pool.
MaxOps == 2

\* Pools handed to LiquidityPool::new: balanced, unbalanced either way, with
\* an empty side, and empty; p_ref below MIN_PRICE, at 1 and above 1; a
\* moderate and a steep curve.
InitBalances ==
    { <<10 * SCALE, 10 * SCALE>>, <<4 * SCALE, 10 * SCALE>>,
      <<10 * SCALE, 3 * SCALE>>, <<0, 0>>, <<0, 5 * SCALE>> }

InitPRefs == { SCALE \div 20, SCALE, 2 * SCALE }

InitCurves == { <<SCALE \div 2, SCALE>>, <<2 * SCALE, SCALE>> }

\* Amounts passed to the pool: negative, zero, small, and large.
Amounts == { -SCALE, 0, 2 * SCALE, 10 * SCALE, 12 * SCALE }

\* (std_dev, std_dev_of_std_dev) passed to set_p_ref.
RwParams == { <<0, 0>>, <<SCALE \div 2, 0>>, <<SCALE \div 10, SCALE \div 2>> }

\* Standard normal draws.
Draws == { -2 * SCALE, -SCALE, 0, SCALE }

----------------------------------------------------------------------------
(* A pool driven through its public operations *)

NoSim == [pc |-> "none"]

Init ==
    /\ \E bal \in InitBalances, p_ref \in InitPRefs, curve \in InitCurves :
          pool = LiquidityPool(bal[1], bal[2], p_ref, curve[1], curve[2])
    /\ last = [op |-> "new", a1 |-> 0, a2 |-> 0, outcome |-> "Ok", ret |-> 0,
               pre |-> pool]
    /\ nops = 0
    /\ updated = FALSE
    /\ sim = NoSim

\* One call op(a1, a2) on the pool that ended as res.
Call(op, a1, a2, res) ==
    /\ nops < MaxOps
    /\ last.outcome # "Panic"
    /\ pool' = res.pool
    /\ last' = [op |-> op, a1 |-> a1, a2 |-> a2, outcome |-> res.outcome,
                ret |-> res.ret, pre |-> pool]
    /\ nops' = nops + 1
    /\ UNCHANGED sim

AddLiquidity ==
    /\ \E amount_a \in Amounts, amount_b \in Amounts :
          Call("add_liquidity", amount_a, amount_b,
               add_liquidity(pool, amount_a, amount_b))
    /\ UNCHANGED updated

RemoveLiquidity ==
    /\ \E amount_a \in Amounts, amount_b \in Amounts :
          Call("remove_liquidity", amount_a, amount_b,
               remove_liquidity(pool, amount_a, amount_b))
    /\ UNCHANGED updated

SwapAToB ==
    /\ \E amount_a \in Amounts :
          Call("swap_a_to_b", amount_a, 0, swap_a_to_b(pool, amount_a))
    /\ UNCHANGED updated

SwapBToA ==
    /\ \E amount_b \in Amounts :
          Call("swap_b_to_a", amount_b, 0, swap_b_to_a(pool, amount_b))
    /\ UNCHANGED updated

GetPrice ==
    /\ Call("get_price", 0, 0, get_price(pool))
    /\ UNCHANGED updated

SetPRef ==
    /\ \E rw \in RwParams, z1 \in Draws, z2 \in Draws :
          Call("set_p_ref", rw[1], rw[2], set_p_ref(pool, rw[1], rw[2], z1, z2))
    /\ updated' = TRUE

Next ==
    \/ AddLiquidity
    \/ RemoveLiquidity
    \/ SwapAToB
    \/ SwapBToA
    \/ GetPrice
    \/ SetPRef

Spec == Init /\ [][Next]_vars

----------------------------------------------------------------------------
(* MonteCarloSimulation::run, one statement of its body at a time *)

\* iterations * steps_per_iteration of one run.
MaxRunSteps == 3

\* Pool templates handed to MonteCarloSimulation::new.
SimTemplates ==
    { LiquidityPool(10 * SCALE, 10 * SCALE, SCALE, SCALE \div 2, SCALE),
      LiquidityPool(10 * SCALE, 6 * SCALE, SCALE, SCALE \div 2, SCALE),
      LiquidityPool(4 * SCALE, 10 * SCALE, SCALE, SCALE \div 2, SCALE),
      LiquidityPool(2 * SCALE, 0, SCALE, SCALE \div 2, SCALE),
      LiquidityPool(0, 5 * SCALE, SCALE, SCALE \div 2, SCALE) }

SimStrategies ==
    { RandomStrategy(0, 4 * SCALE), RandomStrategy(SCALE, 4 * SCALE),
      MeanReversionStrategy(SCALE \div 10, 2 * SCALE) }

\* (alpha, beta) of the simulation: the random-walk parameters.
SimRwParams == { <<0, 0>>, <<SCALE \div 2, 0>> }

\* Standard normal draws of the random walk inside run().
SimDraws == { -SCALE, 0, SCALE }

\* rng.gen::<f64>(): uniform in [0, 1).
Uniform == { 0, SCALE \div 2, SCALE - 1 }

NoStep == [price |-> 0, p_ref |-> 0, balances_a |-> 0, balances_b |-> 0, ratio |-> 0]

\* SimulationResult::default() built from the accumulators of run().
DefaultResult_from_accumulators ==
    [average_price_change |-> 0, average_liquidity_change |-> 0,
     max_price |-> DECIMAL_MIN, min_price |-> DECIMAL_MAX,
     metrics |-> PoolMetrics_new]

\* SimulationResult::default(), and the value of a run that has not returned.
DefaultResult ==
    [average_price_change |-> 0, average_liquidity_change |-> 0,
     max_price |-> 0, min_price |-> 0, metrics |-> PoolMetrics_new]

\* MonteCarloSimulation::new
MonteCarloSimulation(template, iterations, steps_per_iteration, strategy, alpha, beta) ==
    [pc |-> "start", template |-> template, iterations |-> iterations,
     steps_per_iteration |-> steps_per_iteration, strategy |-> strategy,
     alpha |-> alpha, beta |-> beta,
     i |-> 0, j |-> 0, current_price |-> 0,
     initial_price |-> 0, initial_liquidity |-> 0,
     total_price_change |-> Accumulators.total_price_change,
     total_liquidity_change |-> Accumulators.total_liquidity_change,
     max_price |-> Accumulators.max_price,
     min_price |-> Accumulators.min_price,
     initial_step |-> NoStep, pool_metrics |-> PoolMetrics_new,
     returned |-> "no", result |-> DefaultResult,
     iter_start |-> template, iter_end |-> template,
     topup_pre |-> template, strategy_outcome |-> "none",
     strategy_failed |-> FALSE, records |-> << >>,
     step_pre |-> template, strategy_arg |-> 0]

SimInit ==
    /\ \E template \in SimTemplates, strategy \in SimStrategies,
          rw \in SimRwParams,
          iterations \in 0 .. MaxRunSteps, steps \in 0 .. MaxRunSteps :
          /\ iterations * steps <= MaxRunSteps
          /\ pool = template
          /\ sim = MonteCarloSimulation(template, iterations, steps, strategy,
                                         rw[1], rw[2])
    /\ last = [op |-> "new", a1 |-> 0, a2 |-> 0, outcome |-> "Ok", ret |-> 0,
               pre |-> pool]
    /\ nops = 0
    /\ updated = FALSE

\* run() unwinds with a panic.
Panicked == [sim EXCEPT !.pc = "panicked", !.returned = "Panic"]

\* Lines 87-109: the zero-iteration return, the accumulators, initial_step.
RunStart ==
    /\ sim.pc = "start"
    /\ IF sim.iterations = 0
       THEN sim' = [sim EXCEPT !.pc = "done", !.returned = "Ok",
                               !.result = DefaultResult]
       ELSE IF get_price(pool).outcome = "Panic"
       THEN sim' = Panicked
       ELSE sim' = [sim EXCEPT
                !.pc = "iter_begin",
                !.initial_step =
                    [price |-> get_price(pool).ret,
                     p_ref |-> get_p_ref(pool).ret,
                     balances_a |-> get_balances(pool)[1],
                     balances_b |-> get_balances(pool)[2],
                     ratio |-> token_ratio(get_balances(pool)[1],
                                           get_balances(pool)[2])]]
    /\ UNCHANGED <<pool, last, nops, updated>>

\* Lines 111-113: the head of one iteration.
IterBegin ==
    /\ sim.pc = "iter_begin"
    /\ pool' = iteration_pool(sim.template, pool)
    /\ IF get_price(pool').outcome = "Panic"
       THEN sim' = Panicked
       ELSE sim' = [sim EXCEPT
                !.pc = IF sim.steps_per_iteration = 0 THEN "iter_end" ELSE "price",
                !.j = 0,
                !.pool_metrics = iteration_metrics(@),
                !.initial_price = get_price(pool').ret,
                !.initial_liquidity =
                    get_balances(pool')[1] + get_balances(pool')[2],
                !.iter_start = pool']
    /\ UNCHANGED <<last, nops, updated>>

\* Line 116: let current_price = self.pool.get_price()
StepPrice ==
    /\ sim.pc = "price"
    /\ IF get_price(pool).outcome = "Panic"
       THEN sim' = Panicked
       ELSE sim' = [sim EXCEPT !.pc = "p_ref",
                               !.current_price = get_price(pool).ret,
                               !.step_pre = pool]
    /\ UNCHANGED <<pool, last, nops, updated>>

\* Line 117: self.pool.set_p_ref(self.alpha, self.beta)
StepSetPRef ==
    /\ sim.pc = "p_ref"
    /\ \E z1 \in SimDraws, z2 \in SimDraws :
          pool' = set_p_ref(pool, sim.alpha, sim.beta, z1, z2).pool
    /\ sim' = [sim EXCEPT !.pc = "metrics"]
    /\ updated' = TRUE
    /\ UNCHANGED <<last, nops>>

\* Line 119: accumulate_pool_metrics(&mut self.pool, &mut pool_metrics, &initial_step)
StepMetrics ==
    /\ sim.pc = "metrics"
    /\ LET m == accumulate_pool_metrics(pool, sim.pool_metrics, sim.initial_step)
       IN  IF m.outcome = "Panic"
           THEN sim' = Panicked
           ELSE sim' = [sim EXCEPT !.pc = "topup", !.pool_metrics = m.metrics]
    /\ UNCHANGED <<pool, last, nops, updated>>

\* Line 121: self.add_liquidity_if_needed()?
StepTopUp ==
    /\ sim.pc = "topup"
    /\ LET res == add_liquidity_if_needed(pool)
       IN  /\ pool' = res.pool
           /\ IF res.outcome = "Ok"
              THEN sim' = [sim EXCEPT !.pc = "strategy", !.topup_pre = pool]
              ELSE sim' = [sim EXCEPT !.pc = "failed", !.topup_pre = pool,
                                      !.returned = res.outcome]
    /\ UNCHANGED <<last, nops, updated>>

\* Lines 123-126: the strategy call, its error logged and dropped, and the
\* end of the step.
StepStrategy ==
    /\ sim.pc = "strategy"
    /\ \E u \in Uniform, v \in Uniform, dir \in BOOLEAN :
          LET res == execute(sim.strategy, pool,
                             strategy_price(sim.current_price, pool), u, v, dir)
          IN  /\ pool' = res.pool
              /\ IF res.outcome = "Panic"
                 THEN sim' = Panicked
                 ELSE sim' = [sim EXCEPT
                          !.pc = IF sim.j + 1 < sim.steps_per_iteration
                                 THEN "price" ELSE "iter_end",
                          !.j = sim.j + 1,
                          !.strategy_outcome = res.outcome,
                          !.strategy_arg = strategy_price(sim.current_price, pool),
                          !.strategy_failed = @ \/ res.outcome # "Ok"]
    /\ UNCHANGED <<last, nops, updated>>

\* Lines 128-135: the end of one iteration.
IterEnd ==
    /\ sim.pc = "iter_end"
    /\ IF get_price(pool).outcome = "Panic"
       THEN sim' = Panicked
       ELSE LET final_price == get_price(pool).ret
                final_liquidity == get_balances(pool)[1] + get_balances(pool)[2]
                acc == fold_iteration(
                           [total_price_change |-> sim.total_price_change,
                            total_liquidity_change |-> sim.total_liquidity_change,
                            max_price |-> sim.max_price,
                            min_price |-> sim.min_price],
                           sim.initial_price, sim.initial_liquidity,
                           final_price, final_liquidity)
            IN  sim' = [sim EXCEPT
                    !.pc = IF sim.i + 1 < sim.iterations THEN "iter_begin" ELSE "finish",
                    !.i = sim.i + 1,
                    !.total_price_change = acc.total_price_change,
                    !.total_liquidity_change = acc.total_liquidity_change,
                    !.max_price = acc.max_price,
                    !.min_price = acc.min_price,
                    !.iter_end = pool,
                    !.records = Append(@,
                        [start |-> sim.iter_start, end |-> pool,
                         initial_price |-> sim.initial_price,
                         initial_liquidity |-> sim.initial_liquidity,
                         final_price |-> final_price,
                         final_liquidity |-> final_liquidity])]
    /\ UNCHANGED <<pool, last, nops, updated>>

\* Lines 137-143: Ok(SimulationResult { .. })
Finish ==
    /\ sim.pc = "finish"
    /\ sim' = [sim EXCEPT
            !.pc = "done",
            !.returned = "Ok",
            !.result =
                simulation_result(
                    [total_price_change |-> sim.total_price_change,
                     total_liquidity_change |-> sim.total_liquidity_change,
                     max_price |-> sim.max_price,
                     min_price |-> sim.min_price],
                    sim.iterations, sim.pool_metrics)]
    /\ UNCHANGED <<pool, last, nops, updated>>

SimNext ==
    \/ RunStart
    \/ IterBegin
    \/ StepPrice
    \/ StepSetPRef
    \/ StepMetrics
    \/ StepTopUp
    \/ StepStrategy
    \/ IterEnd
    \/ Finish

SimSpec == SimInit /\ [][SimNext]_vars

----------------------------------------------------------------------------
(* A strategy called on a pool, as its tests call it *)

StrategyPools ==
    { LiquidityPool(bal[1], bal[2], p_ref, curve[1], curve[2]) :
        bal \in InitBalances, p_ref \in InitPRefs, curve \in InitCurves }

\* RandomStrategy::new(p, max) with p = 0, 0.5 and 1;
\* MeanReversionStrategy::new(threshold, amount) with a small and a large amount.
Strategies ==
    { RandomStrategy(0, 4 * SCALE), RandomStrategy(SCALE \div 2, 4 * SCALE),
      RandomStrategy(SCALE, 4 * SCALE),
      MeanReversionStrategy(SCALE \div 10, 2 * SCALE),
      MeanReversionStrategy(SCALE \div 10, 12 * SCALE) }

\* current_price handed to execute: far below, at p_ref - t, at p_ref, at
\* p_ref + t, just above it and far above, for p_ref = 1 and t = 0.1.
Prices ==
    { 0, SCALE - SCALE \div 10, SCALE, SCALE + SCALE \div 10,
      SCALE + SCALE \div 10 + 1, 3 * SCALE }

StrategyTest(strategy) == [pc |-> "none", strategy |-> strategy]

StrategyInit ==
    /\ pool \in StrategyPools
    /\ \E strategy \in Strategies : sim = StrategyTest(strategy)
    /\ last = [op |-> "new", a1 |-> 0, a2 |-> 0, dir |-> FALSE,
               current_price |-> 0, outcome |-> "Ok", ret |-> 0, pre |-> pool]
    /\ nops = 0
    /\ updated = FALSE

\* strategy.execute(&mut pool, current_price) with the draws u, v, dir
\* (RandomStrategy ignores current_price: its tests pass dec!(1)).
Execute(op, current_price, u, v, dir) ==
    LET res == execute(sim.strategy, pool, current_price, u, v, dir)
    IN  /\ nops < MaxOps
        /\ last.outcome # "Panic"
        /\ pool' = res.pool
        /\ last' = [op |-> op, a1 |-> u, a2 |-> v, dir |-> dir,
                    current_price |-> current_price,
                    outcome |-> res.outcome, ret |-> res.ret, pre |-> pool]
        /\ nops' = nops + 1
        /\ UNCHANGED <<updated, sim>>

ExecuteRandom ==
    /\ sim.strategy.kind = "random"
    /\ \E u \in Uniform, v \in Uniform, dir \in BOOLEAN :
          Execute("random_execute", SCALE, u, v, dir)

ExecuteMeanReversion ==
    /\ sim.strategy.kind = "mean_reversion"
    /\ \E current_price \in Prices :
          Execute("mean_reversion_execute", current_price, 0, 0, FALSE)

StrategyNext ==
    \/ ExecuteRandom
    \/ ExecuteMeanReversion

StrategySpec == StrategyInit /\ [][StrategyNext]_vars

----------------------------------------------------------------------------
(* Properties of the pool (checked under Spec) *)

IsSwap == last.op \in {"swap_a_to_b", "swap_b_to_a"}

\* C1: the balances are never negative: token_a >= 0 and token_b >= 0 in every
\* state reached by add_liquidity, remove_liquidity, swap_a_to_b, swap_b_to_a
\* and set_p_ref calls, successful or failed, from a pool built with
\* non-negative balances.
C1_BalancesNonNegative == pool.token_a >= 0 /\ pool.token_b >= 0

\* A second call that succeeded and emptied one side exactly.
C1_Witness ==
    /\ nops = 2
    /\ last.outcome = "Ok"
    /\ last.op \in {"swap_a_to_b", "remove_liquidity"}
    /\ last.pre.token_b > 0
    /\ pool.token_b = 0

\* C2: a successful swap moves exactly its input in and exactly its returned
\* output out: swap_a_to_b(amount_a) = amount_b adds amount_a to token_a and
\* takes amount_b from token_b; swap_b_to_a(amount_b) = amount_a adds amount_b
\* to token_b and takes amount_a from token_a.
C2_SwapMovesExactAmounts ==
    /\ (last.op = "swap_a_to_b" /\ last.outcome = "Ok") =>
          /\ pool.token_a - last.pre.token_a = last.a1
          /\ last.pre.token_b - pool.token_b = last.ret
    /\ (last.op = "swap_b_to_a" /\ last.outcome = "Ok") =>
          /\ pool.token_b - last.pre.token_b = last.a1
          /\ last.pre.token_a - pool.token_a = last.ret

\* A successful swap_b_to_a whose output differs from its input.
C2_Witness ==
    /\ last.op = "swap_b_to_a"
    /\ last.outcome = "Ok"
    /\ last.ret # last.a1

\* C3: add_liquidity and remove_liquidity with a non-positive amount fail with
\* InvalidAmount whatever the balances and the other amount; remove_liquidity
\* with two positive amounts, one above its balance, fails with
\* InsufficientLiquidity; with two positive amounts within the balances it
\* succeeds and takes each amount from its balance.
C3_LiquidityErrors ==
    /\ (/\ last.op \in {"add_liquidity", "remove_liquidity"}
        /\ (last.a1 <= 0 \/ last.a2 <= 0)) =>
          last.outcome = "InvalidAmount"
    /\ (/\ last.op = "remove_liquidity"
        /\ last.a1 > 0 /\ last.a2 > 0
        /\ (last.a1 > last.pre.token_a \/ last.a2 > last.pre.token_b)) =>
          last.outcome = "InsufficientLiquidity"
    /\ (/\ last.op = "remove_liquidity"
        /\ last.a1 > 0 /\ last.a2 > 0
        /\ last.a1 <= last.pre.token_a /\ last.a2 <= last.pre.token_b) =>
          /\ last.outcome = "Ok"
          /\ pool.token_a = last.pre.token_a - last.a1
          /\ pool.token_b = last.pre.token_b - last.a2

\* remove_liquidity with a zero amount beside an amount above its balance.
C3_Witness ==
    /\ last.op = "remove_liquidity"
    /\ last.a1 = 0
    /\ last.a2 > last.pre.token_b
    /\ last.pre.token_b > 0
    /\ last.outcome = "InvalidAmount"

\* The output a swap of `amount` computes on pool p: amount * price.
SwapOutput(p, amount) ==
    Mul(arpp(p.p_ref, p.alpha, p.beta, token_ratio(p.token_a, p.token_b)), amount)

\* How a swap of `amount` must end on a pool holding `have` of the input token
\* and `counter` of the output token, when it computes the output `out`.
SwapOutcome(amount, have, counter, out) ==
    IF amount <= 0 THEN "InvalidAmount"
    ELSE IF amount > have THEN "InsufficientLiquidity"
    ELSE IF out <= 0 \/ out > counter THEN "InsufficientLiquidity"
    ELSE "Ok"

C7_QuotesDifferWhenUnbalanced ==
    (/\ pool.token_a # pool.token_b
     /\ pool.token_a > 0 /\ pool.token_b > 0
     /\ pool.alpha > 0 /\ pool.beta > 0) =>
        quote_a_to_b(pool) # quote_b_to_a(pool)

\* C7, amended: both swaps quote from the one ratio
\* token_ratio(token_a, token_b): in every pool state the price swap_a_to_b
\* applies equals the price swap_b_to_a applies, and a successful swap in
\* either direction returns its input amount times get_price() of the pool
\* before the swap.
C7_OneQuoteBothDirections ==
    /\ token_ratio_defined(pool.token_a, pool.token_b) =>
          /\ quote_a_to_b(pool) = get_price(pool).ret
          /\ quote_b_to_a(pool) = get_price(pool).ret
    /\ (IsSwap /\ last.outcome = "Ok") =>
          last.ret = Mul(get_price(last.pre).ret, last.a1)

\* A successful swap_b_to_a on an unbalanced pool where the quote from the
\* reciprocal ratio would have been another price.
C7_Witness ==
    /\ last.op = "swap_b_to_a"
    /\ last.outcome = "Ok"
    /\ last.pre.token_a # last.pre.token_b
    /\ last.pre.token_a > 0
    /\ arpp(last.pre.p_ref, last.pre.alpha, last.pre.beta,
            token_ratio(last.pre.token_b, last.pre.token_a))
         # get_price(last.pre).ret

\* C8: at equilibrium the quote is the reference price exactly:
\* price(p_ref, alpha, beta, 1) = p_ref for every p_ref, alpha, beta; a pool
\* with token_a = token_b > 0 has get_price() = p_ref, and swap_a_to_b(x) on it
\* returns x * p_ref (balances (10, 10), p_ref 1: swap_a_to_b(2) returns 2 and
\* leaves (12, 8)).
C8_EquilibriumQuote ==
    /\ \A p_ref \in InitPRefs \cup {pool.p_ref}, curve \in InitCurves :
          arpp(p_ref, curve[1], curve[2], SCALE) = p_ref
    /\ (pool.token_a = pool.token_b /\ pool.token_a > 0) =>
          get_price(pool) = Result(pool, "Ok", pool.p_ref)
    /\ (/\ last.op = "swap_a_to_b"
        /\ last.pre.token_a = last.pre.token_b
        /\ last.a1 > 0 /\ last.a1 <= last.pre.token_a
        /\ Mul(last.a1, last.pre.p_ref) > 0
        /\ Mul(last.a1, last.pre.p_ref) <= last.pre.token_b) =>
          /\ last.outcome = "Ok"
          /\ last.ret = Mul(last.a1, last.pre.p_ref)
          /\ pool.token_a = last.pre.token_a + last.a1
          /\ pool.token_b = last.pre.token_b - Mul(last.a1, last.pre.p_ref)

\* A swap_a_to_b on a balanced pool whose p_ref is not 1.
C8_Witness ==
    /\ last.op = "swap_a_to_b"
    /\ last.outcome = "Ok"
    /\ last.pre.token_a = last.pre.token_b
    /\ last.pre.p_ref = 2 * SCALE
    /\ last.ret = 2 * last.a1

\* C9 as stated: with both random-walk parameters zero the update leaves every
\* positive p_ref as it was.
C9_ZeroWalkKeepsEveryPRef ==
    (/\ last.op = "set_p_ref"
     /\ last.a1 = 0 /\ last.a2 = 0
     /\ last.pre.p_ref > 0) =>
        pool.p_ref = last.pre.p_ref

\* C9, amended: with both random-walk parameters zero the update leaves every
\* p_ref >= MIN_PRICE as it was, and raises a p_ref below MIN_PRICE to
\* MIN_PRICE.
C9_ZeroWalkKeepsPRefAboveFloor ==
    (/\ last.op = "set_p_ref"
     /\ last.a1 = 0 /\ last.a2 = 0) =>
        /\ last.pre.p_ref >= MIN_PRICE => pool.p_ref = last.pre.p_ref
        /\ last.pre.p_ref < MIN_PRICE => pool.p_ref = MIN_PRICE

\* A zero walk on a positive p_ref below MIN_PRICE.
C9_Witness ==
    /\ last.op = "set_p_ref"
    /\ last.a1 = 0 /\ last.a2 = 0
    /\ last.pre.p_ref > 0
    /\ last.pre.p_ref < MIN_PRICE
    /\ pool.p_ref = MIN_PRICE

\* C10: after a reference-price update p_ref >= MIN_PRICE, whatever the
\* previous p_ref, the parameters and the draws; so from the first update on
\* the pool never holds a p_ref below MIN_PRICE.
C10_PRefFloor ==
    /\ last.op = "set_p_ref" => pool.p_ref >= MIN_PRICE
    /\ updated => pool.p_ref >= MIN_PRICE

\* A walk from 1 whose draw would have taken p_ref to zero or below.
C10_Witness ==
    /\ last.op = "set_p_ref"
    /\ last.pre.p_ref = SCALE
    /\ last.a1 > 0
    /\ pool.p_ref = MIN_PRICE

----------------------------------------------------------------------------
(* Properties of the simulation (checked under SimSpec) *)

\* The statements of one step that follow the top-up.
AfterTopUp == sim.pc \in {"strategy", "failed"}

\* Inside an iteration: after its head, before its end is recorded.
InIteration ==
    sim.pc \in {"price", "p_ref", "metrics", "topup", "strategy", "iter_end"}

\* C5: the top-up runs at every step before the strategy: a token_a below
\* token_b / 2 is raised by exactly token_b / 2 - token_a with token_b
\* unchanged (and token_b likewise), the step goes on to the strategy, and the
\* strategy is invoked with token_a >= token_b / 2 and token_b >= token_a / 2.
C5_TopUpRaisesTheLowSide ==
    AfterTopUp =>
        LET before == sim.topup_pre
            half_a == Div(before.token_a, TWO)
            half_b == Div(before.token_b, TWO)
        IN  /\ sim.pc = "strategy"
            /\ before.token_a < half_b =>
                  /\ pool.token_a = before.token_a + (half_b - before.token_a)
                  /\ pool.token_b = before.token_b
            /\ before.token_b < half_a =>
                  /\ pool.token_b = before.token_b + (half_a - before.token_b)
                  /\ pool.token_a = before.token_a
            /\ pool.token_a >= Div(pool.token_b, TWO)
            /\ pool.token_b >= Div(pool.token_a, TWO)

\* C6 as stated: every iteration starts from a pool equal to the template.
C6_EveryIterationStartsFromTemplate ==
    InIteration => sim.iter_start = sim.template

\* C6, amended: only the first iteration starts from the template; every
\* later iteration starts from the pool (token_a, token_b, p_ref) the iteration
\* before it left: run() drives the one pool of the simulation and neither
\* clones nor resets it between iterations.
C6_IterationsShareOnePool ==
    InIteration =>
        sim.iter_start = IF sim.i = 0 THEN sim.template ELSE sim.iter_end

\* A second iteration that starts from balances and a p_ref other than the
\* template's.
C6_Witness ==
    /\ sim.pc = "price"
    /\ sim.i >= 1
    /\ sim.j = 0
    /\ sim.iter_start.token_a # sim.template.token_a
    /\ sim.iter_start.p_ref # sim.template.p_ref
    /\ sim.iter_start = pool

----------------------------------------------------------------------------
(* Claims about run() with no iteration, and about strategy errors *)

\* C11: a run with iterations = 0 returns at once a result whose four numbers
\* are zero and whose metrics hold no step and four zero sums; no step is
\* executed: the pool is the template, p_ref was never updated and the
\* strategy was never called.
C11_ZeroIterations ==
    (sim.iterations = 0 /\ sim.pc # "start") =>
        /\ sim.pc = "done"
        /\ sim.returned = "Ok"
        /\ sim.result.average_price_change = 0
        /\ sim.result.average_liquidity_change = 0
        /\ sim.result.max_price = 0
        /\ sim.result.min_price = 0
        /\ sim.result.metrics.steps = << >>
        /\ sim.result.metrics.price_volatility = 0
        /\ sim.result.metrics.liquidity_depth = 0
        /\ sim.result.metrics.trading_volume = 0
        /\ sim.result.metrics.impermanent_loss = 0
        /\ pool = sim.template
        /\ ~updated
        /\ sim.strategy_outcome = "none"
        /\ sim.records = << >>

C11_Witness ==
    /\ sim.pc = "done"
    /\ sim.iterations = 0
    /\ sim.steps_per_iteration > 0
    /\ sim.returned = "Ok"

\* C12: once strategy.execute has returned an error in a run, the run still
\* ends by returning a SimulationResult: it never ends with an error.
C12_StrategyErrorNeverAbortsRun ==
    (sim.strategy_failed /\ sim.pc \in {"done", "failed"}) =>
        sim.returned = "Ok"

Failed(res) == res.outcome \in {"InvalidAmount", "InsufficientLiquidity"}

\* The swap the last call of RandomStrategy::execute makes once its gate is
\* open, on the pool as it was before the call.
RandomAttempt ==
    LET st == sim.strategy
        p == last.pre
        amount == Mul(last.a2, st.max_swap_amount)
    IN  IF last.dir
        THEN swap_a_to_b(p, Min(amount, Min(Div(p.token_a, TWO), st.max_swap_amount)))
        ELSE swap_b_to_a(p, Min(amount, Min(Div(p.token_b, TWO), st.max_swap_amount)))

\* The swap the last call of MeanReversionStrategy::execute makes, or a
\* Result with outcome "none" when current_price is within the threshold.
MeanReversionAttempt ==
    LET st == sim.strategy
        p == last.pre
    IN  IF last.current_price > p.p_ref + st.swap_threshold
        THEN swap_b_to_a(p, st.swap_amount)
        ELSE IF last.current_price < p.p_ref - st.swap_threshold
        THEN swap_a_to_b(p, st.swap_amount)
        ELSE Result(p, "none", 0)

\* C13: when the swap attempted by RandomStrategy::execute fails with
\* InsufficientLiquidity, execute returns Ok and the pool is unchanged.
C13_RandomToleratesSwapFailure ==
    ( /\ last.op = "random_execute"
      /\ last.a1 < sim.strategy.swap_probability
      /\ RandomAttempt.outcome = "InsufficientLiquidity" ) =>
        /\ last.outcome = "Ok"
        /\ pool = last.pre

\* C14: MeanReversionStrategy::execute with threshold t and amount s does
\* swap_b_to_a(s) when current_price > p_ref + t, swap_a_to_b(s) when
\* current_price < p_ref - t, and nothing in between, both ends included;
\* the call is that one swap or no swap.
C14_MeanReversionBranches ==
    last.op = "mean_reversion_execute" =>
        LET st == sim.strategy
            p == last.pre
            got == Result(pool, last.outcome, last.ret)
        IN  /\ last.current_price > p.p_ref + st.swap_threshold =>
                   got = swap_b_to_a(p, st.swap_amount)
            /\ last.current_price < p.p_ref - st.swap_threshold =>
                   got = swap_a_to_b(p, st.swap_amount)
            /\ ( /\ last.current_price >= p.p_ref - st.swap_threshold
                 /\ last.current_price <= p.p_ref + st.swap_threshold ) =>
                   got = Result(p, "Ok", 0)

C14_Witness ==
    /\ last.op = "mean_reversion_execute"
    /\ last.current_price > last.pre.p_ref + sim.strategy.swap_threshold
    /\ last.outcome = "Ok"
    /\ pool.token_a < last.pre.token_a
    /\ pool.token_b = last.pre.token_b + sim.strategy.swap_amount

\* C15: when the swap attempted by MeanReversionStrategy::execute fails,
\* execute returns that error, never Ok.
C15_MeanReversionSurfacesFailure ==
    (last.op = "mean_reversion_execute" /\ Failed(MeanReversionAttempt)) =>
        /\ last.outcome = MeanReversionAttempt.outcome
        /\ last.outcome # "Ok"

C15_Witness ==
    /\ last.op = "mean_reversion_execute"
    /\ MeanReversionAttempt.outcome = "InsufficientLiquidity"
    /\ last.outcome = "InsufficientLiquidity"

\* C16: RandomStrategy::execute with its uniform draw at or above the swap
\* probability p returns Ok and leaves the pool as it was; with p = 0 no call
\* changes the pool.
C16_RandomGateClosed ==
    last.op = "random_execute" =>
        /\ last.a1 >= sim.strategy.swap_probability =>
               (pool = last.pre /\ last.outcome = "Ok")
        /\ sim.strategy.swap_probability = 0 => pool = last.pre

C16_Witness ==
    /\ last.op = "random_execute"
    /\ sim.strategy.swap_probability > 0
    /\ last.a1 >= sim.strategy.swap_probability
    /\ last.pre.token_a > 0
    /\ last.pre.token_b > 0
    /\ last.a2 > 0

----------------------------------------------------------------------------
(* Claims about the result and the metrics of run() *)

\* The accumulators after the iterations recs, folded in the order of recs.
RECURSIVE fold_records(_, _)
fold_records(acc, recs) ==
    IF recs = << >>
    THEN acc
    ELSE fold_records(
             fold_iteration(acc, Head(recs).initial_price,
                            Head(recs).initial_liquidity,
                            Head(recs).final_price,
                            Head(recs).final_liquidity),
             Tail(recs))

Orders(n) ==
    { f \in [1 .. n -> 1 .. n] : \A a, b \in 1 .. n : f[a] = f[b] => a = b }

RECURSIVE SeqSum(_)
SeqSum(seq) == IF seq = << >> THEN 0 ELSE Head(seq) + SeqSum(Tail(seq))

RunReturned == sim.pc = "done" /\ sim.iterations >= 1

\* C17: the result of a run is the same whatever the order its iterations are
\* folded in: every permutation of the per-iteration records gives the
\* average_price_change, average_liquidity_change, max_price and min_price
\* that run() returned.
C17_FoldOrderIrrelevant ==
    RunReturned =>
        \A f \in Orders(Len(sim.records)) :
            LET recs == [k \in 1 .. Len(sim.records) |-> sim.records[f[k]]]
                res == simulation_result(fold_records(Accumulators, recs),
                                         sim.iterations, sim.pool_metrics)
            IN  /\ res.average_price_change = sim.result.average_price_change
                /\ res.average_liquidity_change = sim.result.average_liquidity_change
                /\ res.max_price = sim.result.max_price
                /\ res.min_price = sim.result.min_price

C17_Witness ==
    /\ RunReturned
    /\ Len(sim.records) >= 2
    /\ sim.records[1].final_price > sim.records[2].final_price
    /\ Abs(sim.records[1].final_price - sim.records[1].initial_price)
           # Abs(sim.records[2].final_price - sim.records[2].initial_price)

\* C18: for iterations >= 1 the averages are the sums over the iterations of
\* |final_price - initial_price| and |final_liquidity - initial_liquidity|
\* divided by iterations, liquidity being token_a + token_b and the initial
\* values those of the pool at the head of the iteration; max_price and
\* min_price are the largest and smallest final_price of the iterations; so
\* both averages are >= 0 and min_price <= max_price.
C18_ResultFormulas ==
    RunReturned =>
        LET n == Len(sim.records)
            liquidity(p) == p.token_a + p.token_b
            price_changes ==
                [k \in 1 .. n |->
                    Abs(get_price(sim.records[k].end).ret
                        - get_price(sim.records[k].start).ret)]
            liquidity_changes ==
                [k \in 1 .. n |->
                    Abs(liquidity(sim.records[k].end)
                        - liquidity(sim.records[k].start))]
            final_prices == { get_price(sim.records[k].end).ret : k \in 1 .. n }
        IN  /\ n = sim.iterations
            /\ sim.result.average_price_change
                   = Div(SeqSum(price_changes), sim.iterations * SCALE)
            /\ sim.result.average_liquidity_change
                   = Div(SeqSum(liquidity_changes), sim.iterations * SCALE)
            /\ sim.result.max_price \in final_prices
            /\ \A x \in final_prices : x <= sim.result.max_price
            /\ sim.result.min_price \in final_prices
            /\ \A x \in final_prices : x >= sim.result.min_price
            /\ sim.result.average_price_change >= 0
            /\ sim.result.average_liquidity_change >= 0
            /\ sim.result.min_price <= sim.result.max_price

C18_Witness ==
    /\ RunReturned
    /\ sim.iterations >= 2
    /\ sim.result.average_price_change > 0
    /\ sim.result.average_liquidity_change > 0
    /\ sim.result.min_price < sim.result.max_price
    /\ sim.records[1].final_price < sim.records[1].initial_price

\* C19 as stated: from one step to the next none of the four sums of
\* PoolMetrics decreases.
C19_AllAccumulatorsGrow ==
    [][ /\ sim'.pool_metrics.price_volatility >= sim.pool_metrics.price_volatility
        /\ sim'.pool_metrics.liquidity_depth >= sim.pool_metrics.liquidity_depth
        /\ sim'.pool_metrics.trading_volume >= sim.pool_metrics.trading_volume
        /\ sim'.pool_metrics.impermanent_loss >= sim.pool_metrics.impermanent_loss
      ]_vars

\* C19: from one step to the next price_volatility, liquidity_depth and
\* trading_volume never decrease; impermanent_loss is a sum of signed terms:
\* a step moves it by at most 1 either way, and it can decrease.
C19_ThreeAccumulatorsGrow ==
    [][ /\ sim'.pool_metrics.price_volatility >= sim.pool_metrics.price_volatility
        /\ sim'.pool_metrics.liquidity_depth >= sim.pool_metrics.liquidity_depth
        /\ sim'.pool_metrics.trading_volume >= sim.pool_metrics.trading_volume
        /\ sim'.pool_metrics.impermanent_loss
               >= sim.pool_metrics.impermanent_loss - SCALE
        /\ sim'.pool_metrics.impermanent_loss
               <= sim.pool_metrics.impermanent_loss + SCALE
      ]_vars

C19_Witness ==
    /\ Len(sim.pool_metrics.steps) >= 2
    /\ sim.pool_metrics.impermanent_loss < 0
    /\ sim.pool_metrics.trading_volume > 0
    /\ sim.pool_metrics.price_volatility > 0
    /\ sim.pool_metrics.liquidity_depth > 0

\* C20: the metrics of a whole run go into one PoolMetrics against one
\* initial step: initial_step is the step of the pool run() was entered with
\* and is never replaced, and an iteration boundary (the head and the end of
\* an iteration) changes neither the four sums nor the step sequence.
C20_OneMetricsOneInitialStep ==
    [][ /\ sim.pc # "start" =>
               /\ sim'.initial_step = sim.initial_step
               /\ (sim.iterations >= 1 /\ sim.pc # "panicked") =>
                      /\ sim.initial_step.balances_a = sim.template.token_a
                      /\ sim.initial_step.balances_b = sim.template.token_b
                      /\ sim.initial_step.p_ref = sim.template.p_ref
                      /\ sim.initial_step.price = get_price(sim.template).ret
        /\ sim.pc \in {"iter_begin", "iter_end"} =>
               sim'.pool_metrics = sim.pool_metrics
        /\ \A k \in 1 .. Len(sim.pool_metrics.steps) :
               /\ Len(sim'.pool_metrics.steps) >= k
               /\ sim'.pool_metrics.steps[k] = sim.pool_metrics.steps[k]
      ]_vars

C20_Witness ==
    /\ sim.pc = "topup"
    /\ sim.i >= 1
    /\ Len(sim.pool_metrics.steps) >= 2
    /\ pool.token_a # sim.template.token_a
    /\ sim.initial_step.balances_a = sim.template.token_a
    /\ sim.pool_metrics.trading_volume > 0

----------------------------------------------------------------------------
(* The pricing functions applied to drawn inputs, and a pool without
   curvature traded and quoted *)

\* Pools built with alpha = 0: balanced and unbalanced either way.
FormulaPools ==
    { LiquidityPool(bal[1], bal[2], p_ref, 0, SCALE) :
          bal \in { <<10 * SCALE, 10 * SCALE>>, <<4 * SCALE, 10 * SCALE>>,
                    <<10 * SCALE, 3 * SCALE>> },
          p_ref \in { SCALE, 2 * SCALE } }

\* Arguments of arpp: p_ref below MIN_PRICE, at 1, above 1; alpha off, moderate
\* and 1; two slopes; ratios mirrored around 1 (0.5/1.5, 0.9/1.1), reciprocal
\* (0.5/2), and an extreme imbalance.
FormulaPRefs == { SCALE \div 20, SCALE, 2 * SCALE }

FormulaAlphas == { 0, SCALE \div 2, SCALE }

FormulaBetas == { SCALE, 2 * SCALE }

Ratios ==
    { SCALE \div 2, (9 * SCALE) \div 10, SCALE, (11 * SCALE) \div 10,
      (3 * SCALE) \div 2, 2 * SCALE, 1000 * SCALE }

\* Prices compared by calculate_price_volatility: negative, zero, and
\* positive up to 100.
VolatilityPrices == { -SCALE, 0, SCALE \div 2, SCALE, 2 * SCALE, 100 * SCALE }

FormulaInit ==
    /\ pool \in FormulaPools
    /\ last = [op |-> "new", a1 |-> 0, a2 |-> 0, outcome |-> "Ok", ret |-> 0,
               pre |-> pool]
    /\ nops = 0
    /\ updated = FALSE
    /\ sim = NoSim

\* One application op(a1) of a pure function to the argument tuple a1: only
\* the record of the call changes.
Apply(op, a1, ret) ==
    /\ last.outcome # "Panic"
    /\ last' = [op |-> op, a1 |-> a1, a2 |-> 0, outcome |-> "Ok", ret |-> ret,
                pre |-> pool]
    /\ UNCHANGED <<pool, nops, updated, sim>>

\* arpp(p_ref, alpha, beta, r)
ApplyArpp ==
    \E p_ref \in FormulaPRefs, alpha \in FormulaAlphas, beta \in FormulaBetas,
       r \in Ratios :
        Apply("arpp", <<p_ref, alpha, beta, r>>, arpp(p_ref, alpha, beta, r))

\* calculate_price_volatility(current_price, initial_price)
ApplyPriceVolatility ==
    \E current_price \in VolatilityPrices, initial_price \in VolatilityPrices :
        Apply("calculate_price_volatility", <<current_price, initial_price>>,
              calculate_price_volatility(current_price, initial_price))

\* random_walk_price(last_price, std_dev, std_dev_of_std_dev) with the draws
\* z1, z2
ApplyRandomWalk ==
    \E last_price \in InitPRefs, rw \in RwParams, z1 \in Draws, z2 \in Draws :
        Apply("random_walk_price", <<last_price, rw[1], rw[2], z1, z2>>,
              random_walk_price(last_price, rw[1], rw[2], z1, z2))

FormulaNext ==
    \/ ApplyArpp
    \/ ApplyPriceVolatility
    \/ ApplyRandomWalk
    \/ SwapAToB
    \/ SwapBToA
    \/ GetPrice

FormulaSpec == FormulaInit /\ [][FormulaNext]_vars

----------------------------------------------------------------------------
(* Claims about the steps of run() *)

\* C21: a metrics step never fails: whatever the pool, zero balances
\* included, accumulate_pool_metrics completes, appends its snapshot and
\* adds to each sum a value clamped by the sentinels (at most 1 for
\* price_volatility, within [-1, 1] for impermanent_loss).
C21_MetricsStepNeverFails ==
    [][ sim.pc = "metrics" =>
            /\ sim'.pc = "topup"
            /\ Len(sim'.pool_metrics.steps) = Len(sim.pool_metrics.steps) + 1
            /\ sim'.pool_metrics.price_volatility
                   <= sim.pool_metrics.price_volatility + SCALE
            /\ sim'.pool_metrics.price_volatility
                   >= sim.pool_metrics.price_volatility
            /\ sim'.pool_metrics.impermanent_loss
                   <= sim.pool_metrics.impermanent_loss + SCALE
            /\ sim'.pool_metrics.impermanent_loss
                   >= sim.pool_metrics.impermanent_loss - SCALE
      ]_vars

LastStep == sim.pool_metrics.steps[Len(sim.pool_metrics.steps)]

\* C26: the order inside one step: (1) current_price is read, (2) p_ref is
\* updated, (3) the snapshot is appended, (4) the top-up check runs, (5) the
\* strategy is called with the price read in (1).  So current_price is the
\* quote of the pool from before this step's p_ref update, the snapshot holds
\* the updated p_ref and the balances from before this step's top-up and
\* trade, and the strategy gets the price read in (1).
C26_StepOrder ==
    /\ sim.pc = "p_ref" => pool = sim.step_pre
    /\ sim.pc \in {"p_ref", "metrics", "topup", "strategy"} =>
           sim.current_price = get_price(sim.step_pre).ret
    /\ sim.pc \in {"metrics", "topup"} =>
           /\ pool.token_a = sim.step_pre.token_a
           /\ pool.token_b = sim.step_pre.token_b
    /\ sim.pc \in {"topup", "strategy"} =>
           /\ LastStep.p_ref = pool.p_ref
           /\ LastStep.balances_a = sim.step_pre.token_a
           /\ LastStep.balances_b = sim.step_pre.token_b
           /\ LastStep.price
                  = get_price([sim.step_pre EXCEPT !.p_ref = pool.p_ref]).ret
    /\ sim.pc = "strategy" =>
           /\ sim.topup_pre.token_a = LastStep.balances_a
           /\ sim.topup_pre.token_b = LastStep.balances_b
           /\ sim.topup_pre.p_ref = LastStep.p_ref
    /\ (sim.pc \in {"price", "iter_end"} /\ sim.strategy_outcome # "none") =>
           /\ sim.strategy_arg = get_price(sim.step_pre).ret
           /\ LastStep.balances_a = sim.step_pre.token_a
           /\ LastStep.balances_b = sim.step_pre.token_b

\* A step whose p_ref update moved the quote and whose strategy traded.
C26_Witness ==
    /\ sim.pc = "iter_end"
    /\ sim.strategy_outcome = "Ok"
    /\ sim.strategy.kind = "mean_reversion"
    /\ pool.p_ref # sim.step_pre.p_ref
    /\ pool.token_a # sim.step_pre.token_a
    /\ sim.strategy_arg # get_price([sim.step_pre EXCEPT !.p_ref = pool.p_ref]).ret

----------------------------------------------------------------------------
(* Claims about the pure functions *)

\* C22: the per-step price-volatility increment is
\* clamp(|current - initial| / initial, 0, 1) and lies in [0, 1]; a negative
\* price gives 1; initial = 0 gives 1 when current # 0 and 0 when current = 0;
\* current = initial gives 0; and (100, 0) gives 1, (0, 0) gives 0,
\* (100, 100) gives 0.
C22_PriceVolatilityClamped ==
    /\ last.op = "calculate_price_volatility" =>
           LET current == last.a1[1]
               initial == last.a1[2]
               v == last.ret
           IN  /\ v >= 0
               /\ v <= SCALE
               /\ (current < 0 \/ initial < 0) => v = SCALE
               /\ (initial = 0 /\ current > 0) => v = SCALE
               /\ (initial = 0 /\ current = 0) => v = 0
               /\ (current = initial /\ current >= 0) => v = 0
               /\ (current >= 0 /\ initial > 0) =>
                      v = clamp(Div(Abs(current - initial), initial), 0, SCALE)
    /\ calculate_price_volatility(100 * SCALE, 0) = SCALE
    /\ calculate_price_volatility(0, 0) = 0
    /\ calculate_price_volatility(100 * SCALE, 100 * SCALE) = 0

\* A relative change above 1 cut to 1.
C22_Witness ==
    /\ last.op = "calculate_price_volatility"
    /\ last.a1[1] >= 0
    /\ last.a1[2] > 0
    /\ Div(Abs(last.a1[1] - last.a1[2]), last.a1[2]) > SCALE
    /\ last.ret = SCALE

\* C23: with alpha = 0, arpp(p_ref, 0, beta, r) = p_ref exactly, so a pool
\* built with alpha = 0 quotes p_ref in every balance state.
C23_ZeroAlphaQuotesPRef ==
    /\ (last.op = "arpp" /\ last.a1[2] = 0) => last.ret = last.a1[1]
    /\ (pool.alpha = 0 /\ token_ratio_defined(pool.token_a, pool.token_b)) =>
           get_price(pool).ret = pool.p_ref
    /\ (last.op = "get_price" /\ last.outcome = "Ok" /\ last.pre.alpha = 0) =>
           last.ret = last.pre.p_ref

\* A pool without curvature quoted after a swap left it unbalanced.
C23_Witness ==
    /\ last.op = "get_price"
    /\ last.outcome = "Ok"
    /\ pool.alpha = 0
    /\ pool \notin FormulaPools
    /\ pool.token_a # pool.token_b
    /\ last.ret = pool.p_ref

\* C24 as stated: for every ratio r > 0, price(r) - p_ref equals
\* p_ref - price(1/r) within numeric tolerance.
C24_ReciprocalSymmetry ==
    last.op = "arpp" =>
        LET p_ref == last.a1[1]
            alpha == last.a1[2]
            beta == last.a1[3]
            r == last.a1[4]
            mirrored == arpp(p_ref, alpha, beta, Div(SCALE, r))
        IN  Abs((last.ret - p_ref) - (p_ref - mirrored)) <= 2

\* C24 as the code has it: the symmetry is around r = 1 in the distance from
\* 1, not in the reciprocal: for every ratio r with 0 < r < 2,
\* price(r) - p_ref equals p_ref - price(2 - r) within numeric tolerance.
C24_MirrorSymmetry ==
    (last.op = "arpp" /\ last.a1[4] < 2 * SCALE) =>
        LET p_ref == last.a1[1]
            alpha == last.a1[2]
            beta == last.a1[3]
            r == last.a1[4]
            mirrored == arpp(p_ref, alpha, beta, 2 * SCALE - r)
        IN  Abs((last.ret - p_ref) - (p_ref - mirrored)) <= 2

\* A ratio off equilibrium whose price is well off p_ref.
C24_Witness ==
    /\ last.op = "arpp"
    /\ last.a1[4] \in {SCALE \div 2, (3 * SCALE) \div 2}
    /\ Abs(last.ret - last.a1[1]) > 10
    /\ Abs((last.ret - last.a1[1])
           - (last.a1[1] - arpp(last.a1[1], last.a1[2], last.a1[3],
                                2 * SCALE - last.a1[4]))) <= 2

\* The band p_ref * (1 -/+ alpha * h), h the largest value of atan.
band_low(p_ref, alpha) == Mul(p_ref, SCALE - Mul(alpha, HALF_PI))

band_high(p_ref, alpha) == Mul(p_ref, SCALE + Mul(alpha, HALF_PI))

\* C25 as stated: for p_ref > 0, alpha >= 0, beta > 0 and r > 0 the price is
\* strictly inside the band p_ref * (1 -/+ alpha * pi/2).
C25_StrictBand ==
    /\ last.op = "arpp" =>
           /\ band_low(last.a1[1], last.a1[2]) < last.ret
           /\ last.ret < band_high(last.a1[1], last.a1[2])
    /\ token_ratio_defined(pool.token_a, pool.token_b) =>
           /\ band_low(pool.p_ref, pool.alpha) < get_price(pool).ret
           /\ get_price(pool).ret < band_high(pool.p_ref, pool.alpha)

\* C25 as the code has it: the price never leaves the closed band
\* p_ref * (1 -/+ alpha * h), h the value atan saturates at; the ends are
\* reached (alpha = 0, or a saturated atan).
C25_ClosedBand ==
    /\ last.op = "arpp" =>
           /\ band_low(last.a1[1], last.a1[2]) <= last.ret
           /\ last.ret <= band_high(last.a1[1], last.a1[2])
    /\ token_ratio_defined(pool.token_a, pool.token_b) =>
           /\ band_low(pool.p_ref, pool.alpha) <= get_price(pool).ret
           /\ get_price(pool).ret <= band_high(pool.p_ref, pool.alpha)

\* An extreme imbalance with curvature on: the price sits on the upper end.
C25_Witness ==
    /\ last.op = "arpp"
    /\ last.a1[2] > 0
    /\ last.a1[4] = 1000 * SCALE
    /\ last.ret = band_high(last.a1[1], last.a1[2])
    /\ last.ret > last.a1[1]

\* The first draw of random_walk_price.
first_draw == normal_sample(last.a1[2], last.a1[3], last.a1[4])

\* C28 as stated: a negative first draw gives an effective standard deviation
\* of 0, a price delta of 0 and the new price max(p_ref, MIN_PRICE).
C28_NegativeDrawClamped ==
    (last.op = "random_walk_price" /\ first_draw < 0) =>
        last.ret = Max(last.a1[1], MIN_PRICE)

\* C28 as the code has it: the effective standard deviation is the size of
\* the first draw, |sample|: with a negative draw the price delta is
\* |sample| * z2 and the new price max(p_ref + |sample| * z2, MIN_PRICE).
C28_NegativeDrawReflected ==
    (last.op = "random_walk_price" /\ first_draw < 0) =>
        last.ret = Max(last.a1[1] + Mul(-first_draw, last.a1[5]), MIN_PRICE)

\* A negative first draw that moved the price.
C28_Witness ==
    /\ last.op = "random_walk_price"
    /\ first_draw < 0
    /\ last.a1[5] # 0
    /\ last.ret # Max(last.a1[1], MIN_PRICE)
    /\ last.ret = Max(last.a1[1] + Mul(-first_draw, last.a1[5]), MIN_PRICE)

----------------------------------------------------------------------------
(* Claims about what the pool operations leave alone *)

PoolMutators ==
    {"add_liquidity", "remove_liquidity", "swap_a_to_b", "swap_b_to_a"}

\* C29: a failed pool operation changes nothing: when add_liquidity,
\* remove_liquidity, swap_a_to_b or swap_b_to_a returns an error, token_a,
\* token_b, p_ref, alpha and beta are what they were before the call.
C29_FailedCallChangesNothing ==
    (last.op \in PoolMutators
        /\ last.outcome \in {"InvalidAmount", "InsufficientLiquidity"}) =>
        pool = last.pre

\* A swap with an acceptable input, rejected on its computed output.
C29_Witness ==
    /\ last.op = "swap_b_to_a"
    /\ last.outcome = "InsufficientLiquidity"
    /\ last.a1 > 0
    /\ last.a1 <= last.pre.token_b
    /\ Mul(quote_b_to_a(last.pre), last.a1) > last.pre.token_a
    /\ pool = last.pre

\* C30: add_liquidity, remove_liquidity and the swaps never change p_ref,
\* alpha or beta; set_p_ref changes only p_ref; get_price, get_p_ref and
\* get_balances change no field, so a get_price right after a get_price
\* returns the same value; alpha and beta never change.
C30_FrameConditions ==
    [][ /\ pool'.alpha = pool.alpha
        /\ pool'.beta = pool.beta
        /\ last'.op \in PoolMutators => pool'.p_ref = pool.p_ref
        /\ last'.op = "set_p_ref" =>
               /\ pool'.token_a = pool.token_a
               /\ pool'.token_b = pool.token_b
        /\ last'.op = "get_price" => pool' = pool
        /\ (last.op = "get_price" /\ last'.op = "get_price"
                /\ last.outcome = "Ok") =>
               /\ last'.outcome = "Ok"
               /\ last'.ret = last.ret
        /\ get_p_ref(pool).pool = pool
        /\ get_balances(pool) = <<pool.token_a, pool.token_b>>
      ]_vars

\* A reference-price update that moved p_ref after an operation that moved
\* the balances.
C30_Witness ==
    /\ last.op = "set_p_ref"
    /\ nops = 2
    /\ pool.p_ref # last.pre.p_ref
    /\ pool.token_a = last.pre.token_a
    /\ pool.token_b = last.pre.token_b
    /\ pool.alpha = last.pre.alpha
    /\ pool.beta = last.pre.beta
    /\ <<pool.token_a, pool.token_b>> \notin InitBalances

====
